---- MODULE Spec2Model ----
(***************************************************************************)
(* The two fastdx samples (samples/tiny/main.cpp, samples/triangle/        *)
(* triangle.cpp) as one state machine: the CPU thread walks through        *)
(* initializeD3d, then the main loop calls draw() (and, in the triangle    *)
(* sample, the window-destroy callback waitGpu(true)); the GPU consumes    *)
(* the command queue asynchronously and drives the fence.                  *)
(***************************************************************************)
EXTENDS Integers, Sequences, FiniteSets, TLC

\* main.cpp:5, triangle.cpp:5
kFrameCount == 3

\* Largest value the model lets the CPU pass to commandQueue->Signal.
MaxSignal == 8

\* Largest shader file (in bytes) the shader-read specification enumerates.
MaxFileSize == 2

Samples == {"tiny", "triangle"}

Frames == 0 .. (kFrameCount - 1)

\* Byte values a shader file may hold; 0 is what vector::resize fills in.
FileBytes == {1, 2}

ZeroByte == 0

VARIABLES
    sample,             \* which of the two programs runs
    pc,                 \* position of the CPU thread
    created,            \* the objects initializeD3d has created, in order
    disk,               \* the two shader files as the file system serves them
    vertexShader,       \* std::vector<uint8_t> vertexShader
    pixelShader,        \* std::vector<uint8_t> pixelShader
    readResult,         \* the HRESULTs readShader returned (the callers drop them)
    frameIndex,         \* int32_t frameIndex
    swapFenceCounter,   \* uint64_t swapFenceCounter
    swapFenceWaitValue, \* uint64_t swapFenceWaitValue[kFrameCount]
    nextFrameIndex,     \* local of draw / waitGpu
    forceWait,          \* waitGpu's parameter for the call in progress
    rtvOffset,          \* descriptor index of (frame)rtvHandle in the RTV heap
    backBufferIndex,    \* swapChain->GetCurrentBackBufferIndex()
    lastPresented,      \* the buffer the latest Present handed over
    listState,          \* commandList: "none", "recording" or "closed"
    listAllocator,      \* the allocator commandList records into
    allocCmds,          \* the commands each allocator holds
    resState,           \* tracked resource state of renderTargets[i]
    depthState,         \* tracked resource state of depthStencilTarget
    submitted,          \* everything handed to commandQueue, in order
    gpuDone,            \* how many entries of submitted the GPU has executed
    fenceCompleted,     \* swapFence->GetCompletedValue()
    fenceWaiters,       \* values registered with SetEventOnCompletion
    eventSignaled,      \* state of the auto-reset fenceEvent
    drawLog,            \* the steps the current draw() has performed
    destroyed           \* onWindowDestroy has run

vars == << sample, pc, created, disk, vertexShader, pixelShader, readResult,
           frameIndex, swapFenceCounter, swapFenceWaitValue, nextFrameIndex,
           forceWait, rtvOffset, backBufferIndex, lastPresented, listState,
           listAllocator, allocCmds, resState, depthState, submitted, gpuDone,
           fenceCompleted, fenceWaiters, eventSignaled, drawLog, destroyed >>

initVars == << created, disk, vertexShader, pixelShader, readResult >>

cpuVars == << frameIndex, swapFenceCounter, swapFenceWaitValue, nextFrameIndex,
              forceWait, rtvOffset, drawLog, destroyed >>

listVars == << listState, listAllocator, allocCmds >>

swapVars == << backBufferIndex, lastPresented, resState, depthState >>

queueVars == << submitted, gpuDone >>

fenceVars == << fenceCompleted, fenceWaiters, eventSignaled >>

----------------------------------------------------------------------------
(* readShader *)

RECURSIVE SeqsUpTo(_)
SeqsUpTo(n) ==
    IF n = 0 THEN {<<>>}
    ELSE LET shorter == SeqsUpTo(n - 1)
         IN  shorter \cup {Append(s, b) : s \in {t \in shorter : Len(t) = n - 1}, b \in FileBytes}

\* A file: whether std::ifstream opens it, the bytes file_size counts, and how
\* many of them the stream delivers before it hits an error or the end.
NoFile == [exists |-> FALSE, bytes |-> <<>>, avail |-> 0]

FilesUpTo(n) ==
    {NoFile} \cup
    UNION {{[exists |-> TRUE, bytes |-> b, avail |-> a] : a \in 0 .. Len(b)} : b \in SeqsUpTo(n)}

\* std::vector::resize: truncate, or pad with value-initialised (zero) bytes.
Resize(v, n) == [i \in 1 .. n |-> IF i <= Len(v) THEN v[i] ELSE ZeroByte]

\* istream::read(buf, n): the first avail bytes land in buf; the stream is good
\* afterwards only if all n were there.
StreamRead(file, buf, n) ==
    [i \in 1 .. Len(buf) |-> IF i <= n /\ i <= file.avail THEN file.bytes[i] ELSE buf[i]]

readShader(file, outShaderData) ==
    IF file.exists
    THEN LET fileSize == Len(file.bytes)
             resized  == Resize(outShaderData, fileSize)
         IN  [data |-> StreamRead(file, resized, fileSize),
              hr   |-> IF file.avail >= fileSize THEN "S_OK" ELSE "E_FAIL"]
    ELSE [data |-> outShaderData, hr |-> "E_FAIL"]

----------------------------------------------------------------------------
(* Initial state: the globals as the static initialisers leave them. *)

\* The shaders as the build deploys them next to the executable.
DeployedDisk ==
    [vs |-> [exists |-> TRUE, bytes |-> <<1, 2>>, avail |-> 2],
     ps |-> [exists |-> TRUE, bytes |-> <<2>>, avail |-> 1]]

AllDisks == [vs : FilesUpTo(MaxFileSize), ps : FilesUpTo(MaxFileSize)]

InitWith(disks) ==
    /\ sample \in Samples
    /\ pc = "createDevice"
    /\ created = <<>>
    /\ disk \in disks
    /\ vertexShader = <<>>
    /\ pixelShader = <<>>
    /\ readResult = [vs |-> "NONE", ps |-> "NONE"]
    /\ frameIndex = 0
    /\ swapFenceCounter = 0
    /\ swapFenceWaitValue = [i \in Frames |-> 0]
    /\ nextFrameIndex = 0
    /\ forceWait = FALSE
    /\ rtvOffset = 0
    /\ backBufferIndex = 0
    /\ lastPresented = 0
    /\ listState = "none"
    /\ listAllocator = 0
    /\ allocCmds = [i \in Frames |-> <<>>]
    /\ resState = [i \in Frames |-> "NONE"]
    /\ depthState = "NONE"
    /\ submitted = <<>>
    /\ gpuDone = 0
    /\ fenceCompleted = 0
    /\ fenceWaiters = {}
    /\ eventSignaled = FALSE
    /\ drawLog = <<>>
    /\ destroyed = FALSE

Init == InitWith({DeployedDisk})

ShaderInit == InitWith(AllDisks)

----------------------------------------------------------------------------
(* initializeD3d *)

\* One creation call of initializeD3d: the object exists afterwards.
Create(from, object, to) ==
    /\ pc = from
    /\ pc' = to
    /\ created' = Append(created, object)

\* x++ : the value the expression yields, and the value left in x.
PostIncrement(x) == [value |-> x, left |-> x + 1]

CreateDevice ==
    /\ Create("createDevice", "device", "createCommandQueue")
    /\ UNCHANGED << sample, disk, vertexShader, pixelShader, readResult >>
    /\ UNCHANGED << cpuVars, listVars, swapVars, queueVars, fenceVars >>

CreateCommandQueue ==
    /\ Create("createCommandQueue", "commandQueue", "createSwapChain")
    /\ UNCHANGED << sample, disk, vertexShader, pixelShader, readResult >>
    /\ UNCHANGED << cpuVars, listVars, swapVars, queueVars, fenceVars >>

\* createSwapChainForHwnd: kFrameCount buffers, buffer 0 current, all of them
\* in the PRESENT (= COMMON) state.
CreateSwapChain ==
    /\ Create("createSwapChain", "swapChain", "createRtvHeap")
    /\ backBufferIndex' = 0
    /\ resState' = [i \in Frames |-> "PRESENT"]
    /\ UNCHANGED << sample, disk, vertexShader, pixelShader, readResult >>
    /\ UNCHANGED << lastPresented, depthState >>
    /\ UNCHANGED << cpuVars, listVars, queueVars, fenceVars >>

\* The number of descriptors createHeapDescriptor is asked for.
RtvHeapCapacity(s) == IF s = "tiny" THEN 8 ELSE kFrameCount

CreateRtvHeap ==
    /\ Create("createRtvHeap", "swapChainRtvHeap",
              IF sample = "triangle" THEN "createDepthStencil" ELSE "createAllocators")
    /\ UNCHANGED << sample, disk, vertexShader, pixelShader, readResult >>
    /\ UNCHANGED << cpuVars, listVars, swapVars, queueVars, fenceVars >>

\* triangle only: the depth buffer is created in the DEPTH_WRITE state.
CreateDepthStencil ==
    /\ sample = "triangle"
    /\ Create("createDepthStencil", "depthStencilTarget", "createAllocators")
    /\ depthState' = "DEPTH_WRITE"
    /\ UNCHANGED << sample, disk, vertexShader, pixelShader, readResult >>
    /\ UNCHANGED << backBufferIndex, lastPresented, resState >>
    /\ UNCHANGED << cpuVars, listVars, queueVars, fenceVars >>

CreateCommandAllocators ==
    /\ Create("createAllocators", "commandAllocators", "createCommandList")
    /\ allocCmds' = [i \in Frames |-> <<>>]
    /\ UNCHANGED << sample, disk, vertexShader, pixelShader, readResult >>
    /\ UNCHANGED << listState, listAllocator >>
    /\ UNCHANGED << cpuVars, swapVars, queueVars, fenceVars >>

\* createCommandList hands back a list that is open for recording on allocator 0.
CreateCommandList ==
    /\ Create("createCommandList", "commandList", "closeInitial")
    /\ listState' = "recording"
    /\ listAllocator' = 0
    /\ UNCHANGED << sample, disk, vertexShader, pixelShader, readResult >>
    /\ UNCHANGED << allocCmds >>
    /\ UNCHANGED << cpuVars, swapVars, queueVars, fenceVars >>

\* ID3D12GraphicsCommandList::Close: a recording list becomes closed; on a
\* list that is not recording the call fails and changes nothing.
Close(state) == IF state = "recording" THEN "closed" ELSE state

CloseSkipped(state) == state

InitialClose(state) == Close(state)

CloseInitial ==
    /\ pc = "closeInitial"
    /\ pc' = "createFence"
    /\ listState' = InitialClose(listState)
    /\ UNCHANGED << sample, initVars >>
    /\ UNCHANGED << listAllocator, allocCmds >>
    /\ UNCHANGED << cpuVars, swapVars, queueVars, fenceVars >>

\* device->createFence(swapFenceCounter++, ...)
CreateFence ==
    /\ Create("createFence", "swapFence", "createEvent")
    /\ fenceCompleted' = PostIncrement(swapFenceCounter).value
    /\ swapFenceCounter' = PostIncrement(swapFenceCounter).left
    /\ UNCHANGED << sample, disk, vertexShader, pixelShader, readResult >>
    /\ UNCHANGED << frameIndex, swapFenceWaitValue, nextFrameIndex, forceWait,
                    rtvOffset, drawLog, destroyed >>
    /\ UNCHANGED << fenceWaiters, eventSignaled >>
    /\ UNCHANGED << listVars, swapVars, queueVars >>

\* CreateEvent(nullptr, FALSE, FALSE, nullptr): auto-reset, not signaled.
CreateFenceEvent ==
    /\ Create("createEvent", "fenceEvent", "readVertexShader")
    /\ eventSignaled' = FALSE
    /\ UNCHANGED << sample, disk, vertexShader, pixelShader, readResult >>
    /\ UNCHANGED << fenceCompleted, fenceWaiters >>
    /\ UNCHANGED << cpuVars, listVars, swapVars, queueVars >>

ReadVertexShader ==
    /\ pc = "readVertexShader"
    /\ pc' = "readPixelShader"
    /\ LET r == readShader(disk.vs, vertexShader)
       IN  /\ vertexShader' = r.data
           /\ readResult' = [readResult EXCEPT !.vs = r.hr]
    /\ UNCHANGED << sample, created, disk, pixelShader >>
    /\ UNCHANGED << cpuVars, listVars, swapVars, queueVars, fenceVars >>

ReadPixelShader ==
    /\ pc = "readPixelShader"
    /\ pc' = "createRootSignature"
    /\ LET r == readShader(disk.ps, pixelShader)
       IN  /\ pixelShader' = r.data
           /\ readResult' = [readResult EXCEPT !.ps = r.hr]
    /\ UNCHANGED << sample, created, disk, vertexShader >>
    /\ UNCHANGED << cpuVars, listVars, swapVars, queueVars, fenceVars >>

CreateRootSignature ==
    /\ Create("createRootSignature", "pipelineRootSignature", "createPipelineState")
    /\ UNCHANGED << sample, disk, vertexShader, pixelShader, readResult >>
    /\ UNCHANGED << cpuVars, listVars, swapVars, queueVars, fenceVars >>

\* The last statement of initializeD3d; WinMain then enters runMainLoop.
CreatePipelineState ==
    /\ Create("createPipelineState", "pipelineState", "mainLoop")
    /\ UNCHANGED << sample, disk, vertexShader, pixelShader, readResult >>
    /\ UNCHANGED << cpuVars, listVars, swapVars, queueVars, fenceVars >>

initializeD3d ==
    \/ CreateDevice
    \/ CreateCommandQueue
    \/ CreateSwapChain
    \/ CreateRtvHeap
    \/ CreateDepthStencil
    \/ CreateCommandAllocators
    \/ CreateCommandList
    \/ CloseInitial
    \/ CreateFence
    \/ CreateFenceEvent
    \/ ReadVertexShader
    \/ ReadPixelShader
    \/ CreateRootSignature
    \/ CreatePipelineState

\* The order in which initializeD3d creates its objects.
InitOrder(s) ==
    << "device", "commandQueue", "swapChain", "swapChainRtvHeap" >>
    \o (IF s = "triangle" THEN << "depthStencilTarget" >> ELSE << >>)
    \o << "commandAllocators", "commandList", "swapFence", "fenceEvent",
          "pipelineRootSignature", "pipelineState" >>

----------------------------------------------------------------------------
(* Command lists and resource states *)

Cmd(c, r, b, a) == [cmd |-> c, res |-> r, before |-> b, after |-> a]

Barrier(r, b, a) == Cmd("ResourceBarrier", r, b, a)

\* What draw() records between commandList->Reset and commandList->Close for
\* frame f, with the RTV descriptor at index rtv of the heap (descriptor k of
\* the heap is the view of renderTargets[k]).
TinyCommands(f, rtv) ==
    << Barrier(f, "PRESENT", "RENDER_TARGET"),
       Cmd("SetPipelineState", f, "", ""),
       Cmd("OMSetRenderTargets", rtv, "", ""),
       Cmd("ClearRenderTargetView", rtv, "", ""),
       Barrier(f, "RENDER_TARGET", "PRESENT") >>

TriangleCommands(f, rtv) ==
    << Barrier(f, "PRESENT", "RENDER_TARGET"),
       Cmd("SetPipelineState", f, "", ""),
       Cmd("OMSetRenderTargets", rtv, "", ""),
       Cmd("ClearRenderTargetView", rtv, "", ""),
       Cmd("ClearDepthStencilView", f, "", ""),
       Barrier(f, "RENDER_TARGET", "PRESENT") >>

CommandsNoFinalBarrier(s, f, rtv) ==
    IF s = "tiny" THEN SubSeq(TinyCommands(f, rtv), 1, 4)
    ELSE SubSeq(TriangleCommands(f, rtv), 1, 5)

RecordedCommands(s, f, rtv) ==
    IF s = "tiny" THEN TinyCommands(f, rtv) ELSE TriangleCommands(f, rtv)

\* One command against the tracked states: st = [rs, ds, ok]. A barrier whose
\* StateBefore is not the tracked state, a render-target clear outside
\* RENDER_TARGET and a depth clear outside DEPTH_WRITE are errors.
RunCommand(c, st) ==
    CASE c.cmd = "ResourceBarrier" ->
            [rs |-> [st.rs EXCEPT ![c.res] = c.after],
             ds |-> st.ds,
             ok |-> st.ok /\ st.rs[c.res] = c.before]
      [] c.cmd = "ClearRenderTargetView" ->
            [st EXCEPT !.ok = st.ok /\ c.res \in Frames /\ st.rs[c.res] = "RENDER_TARGET"]
      [] c.cmd = "OMSetRenderTargets" ->
            [st EXCEPT !.ok = st.ok /\ c.res \in Frames]
      [] c.cmd = "ClearDepthStencilView" ->
            [st EXCEPT !.ok = st.ok /\ st.ds = "DEPTH_WRITE"]
      [] OTHER -> st

RECURSIVE RunList(_, _)
RunList(cmds, st) ==
    IF cmds = <<>> THEN st ELSE RunList(Tail(cmds), RunCommand(Head(cmds), st))

\* The render targets a command list clears.
ClearedTargets(cmds) ==
    {cmds[k].res : k \in {j \in 1 .. Len(cmds) : cmds[j].cmd = "ClearRenderTargetView"}}

ClearsDepth(cmds) ==
    \E k \in 1 .. Len(cmds) : cmds[k].cmd = "ClearDepthStencilView"

----------------------------------------------------------------------------
(* The command queue, the GPU and the fence *)

Entry(o, a) == [op |-> o, arg |-> a]

\* The waiters a fence value releases.
Released(waiters, value) == {w \in waiters : w <= value}

\* The GPU executes the head of the queue; a Signal sets the fence to its
\* value and fires every event registered for a value it has reached.
GpuExecute ==
    /\ gpuDone < Len(submitted)
    /\ gpuDone' = gpuDone + 1
    /\ LET e == submitted[gpuDone + 1]
       IN  IF e.op = "Signal"
           THEN /\ fenceCompleted' = e.arg
                /\ fenceWaiters' = fenceWaiters \ Released(fenceWaiters, e.arg)
                /\ eventSignaled' = (eventSignaled \/ Released(fenceWaiters, e.arg) # {})
           ELSE UNCHANGED fenceVars
    /\ UNCHANGED << sample, pc, initVars, cpuVars, listVars, swapVars, submitted >>

----------------------------------------------------------------------------
(* draw *)

\* The steps of one draw(), in program order.
DrawOrder ==
    << "AllocatorReset", "ListReset", "Record", "Close", "ExecuteCommandLists",
       "Present", "Signal", "Sync" >>

\* drawLog after step op; waitGpu(true) is the destroy callback, not a draw.
Logged(op) == IF forceWait THEN drawLog ELSE Append(drawLog, op)

\* runMainLoop calls draw(): the descriptor handle is offset by frameIndex.
BeginDraw ==
    /\ pc = "mainLoop"
    /\ swapFenceCounter <= MaxSignal
    /\ pc' = "allocReset"
    /\ rtvOffset' = frameIndex
    /\ drawLog' = <<>>
    /\ UNCHANGED << frameIndex, swapFenceCounter, swapFenceWaitValue, nextFrameIndex,
                    forceWait, destroyed >>
    /\ UNCHANGED << sample, initVars, listVars, swapVars, queueVars, fenceVars >>

\* commandAllocators[frameIndex]->Reset()
AllocatorReset ==
    /\ pc = "allocReset"
    /\ pc' = "listReset"
    /\ allocCmds' = [allocCmds EXCEPT ![frameIndex] = <<>>]
    /\ drawLog' = Logged("AllocatorReset")
    /\ UNCHANGED << frameIndex, swapFenceCounter, swapFenceWaitValue, nextFrameIndex,
                    forceWait, rtvOffset, destroyed >>
    /\ UNCHANGED << listState, listAllocator >>
    /\ UNCHANGED << sample, initVars, swapVars, queueVars, fenceVars >>

\* commandList->Reset(commandAllocator.get(), nullptr): only a closed list
\* can be reset; on a recording list the call fails and changes nothing.
ListReset ==
    /\ pc = "listReset"
    /\ pc' = "record"
    /\ IF listState = "closed"
       THEN /\ listState' = "recording"
            /\ listAllocator' = frameIndex
       ELSE UNCHANGED << listState, listAllocator >>
    /\ drawLog' = Logged("ListReset")
    /\ UNCHANGED << frameIndex, swapFenceCounter, swapFenceWaitValue, nextFrameIndex,
                    forceWait, rtvOffset, destroyed >>
    /\ UNCHANGED << allocCmds >>
    /\ UNCHANGED << sample, initVars, swapVars, queueVars, fenceVars >>

\* The barriers, the pipeline state, the render target and the clears go
\* into the allocator the list was reset onto.
Record ==
    /\ pc = "record"
    /\ pc' = "close"
    /\ IF listState = "recording"
       THEN allocCmds' = [allocCmds EXCEPT ![listAllocator] =
                             @ \o RecordedCommands(sample, frameIndex, rtvOffset)]
       ELSE UNCHANGED allocCmds
    /\ drawLog' = Logged("Record")
    /\ UNCHANGED << frameIndex, swapFenceCounter, swapFenceWaitValue, nextFrameIndex,
                    forceWait, rtvOffset, destroyed >>
    /\ UNCHANGED << listState, listAllocator >>
    /\ UNCHANGED << sample, initVars, swapVars, queueVars, fenceVars >>

CloseList ==
    /\ pc = "close"
    /\ pc' = "execute"
    /\ listState' = Close(listState)
    /\ drawLog' = Logged("Close")
    /\ UNCHANGED << frameIndex, swapFenceCounter, swapFenceWaitValue, nextFrameIndex,
                    forceWait, rtvOffset, destroyed >>
    /\ UNCHANGED << listAllocator, allocCmds >>
    /\ UNCHANGED << sample, initVars, swapVars, queueVars, fenceVars >>

\* commandQueue->ExecuteCommandLists: a closed list is queued, and the
\* resource states are those its barriers leave; a list that is not closed
\* is rejected.
ExecuteCommandLists ==
    /\ pc = "execute"
    /\ pc' = "present"
    /\ IF listState = "closed"
       THEN LET after == RunList(allocCmds[listAllocator],
                                 [rs |-> resState, ds |-> depthState, ok |-> TRUE])
            IN  /\ submitted' = Append(submitted, Entry("Execute", listAllocator))
                /\ resState' = after.rs
       ELSE UNCHANGED << submitted, resState >>
    /\ drawLog' = Logged("ExecuteCommandLists")
    /\ UNCHANGED << frameIndex, swapFenceCounter, swapFenceWaitValue, nextFrameIndex,
                    forceWait, rtvOffset, destroyed >>
    /\ UNCHANGED << backBufferIndex, lastPresented, depthState, gpuDone >>
    /\ UNCHANGED << sample, initVars, listVars, fenceVars >>

\* The back buffer that becomes current when buffer b is presented.
AfterPresent(b) == (b + 1) % kFrameCount

\* swapChain->Present(1, 0): queues the flip of the current back buffer.
Present ==
    /\ pc = "present"
    /\ pc' = "signal"
    /\ submitted' = Append(submitted, Entry("Present", backBufferIndex))
    /\ lastPresented' = backBufferIndex
    /\ backBufferIndex' = AfterPresent(backBufferIndex)
    /\ drawLog' = Logged("Present")
    /\ UNCHANGED << frameIndex, swapFenceCounter, swapFenceWaitValue, nextFrameIndex,
                    forceWait, rtvOffset, destroyed >>
    /\ UNCHANGED << resState, depthState, gpuDone >>
    /\ UNCHANGED << sample, initVars, listVars, fenceVars >>

----------------------------------------------------------------------------
(* waitGpu (triangle) / the tail of draw (tiny) *)

\* commandQueue->Signal(swapFence.get(), swapFenceCounter)
Signal ==
    /\ pc = "signal"
    /\ pc' = "recordWait"
    /\ submitted' = Append(submitted, Entry("Signal", swapFenceCounter))
    /\ drawLog' = Logged("Signal")
    /\ UNCHANGED << frameIndex, swapFenceCounter, swapFenceWaitValue, nextFrameIndex,
                    forceWait, rtvOffset, destroyed >>
    /\ UNCHANGED << sample, initVars, listVars, swapVars, gpuDone, fenceVars >>

NoIncrement(x) == [value |-> x, left |-> x]

\* The swapFenceCounter++ of the wait-value assignment.
CounterStep(x) == PostIncrement(x)

WaitValueDropped(w, f, v) == w

\* swapFenceWaitValue[frameIndex] = <value>
RecordWaitValue(w, f, v) == [w EXCEPT ![f] = v]

\* swapFenceWaitValue[frameIndex] = swapFenceCounter++
RecordWait ==
    /\ pc = "recordWait"
    /\ pc' = "getBackBuffer"
    /\ swapFenceWaitValue' =
           RecordWaitValue(swapFenceWaitValue, frameIndex, CounterStep(swapFenceCounter).value)
    /\ swapFenceCounter' = CounterStep(swapFenceCounter).left
    /\ UNCHANGED << frameIndex, nextFrameIndex, forceWait, rtvOffset, drawLog, destroyed >>
    /\ UNCHANGED << sample, initVars, listVars, swapVars, queueVars, fenceVars >>

\* nextFrameIndex = swapChain->GetCurrentBackBufferIndex()
GetBackBuffer ==
    /\ pc = "getBackBuffer"
    /\ pc' = "checkFence"
    /\ nextFrameIndex' = backBufferIndex
    /\ UNCHANGED << frameIndex, swapFenceCounter, swapFenceWaitValue, forceWait,
                    rtvOffset, drawLog, destroyed >>
    /\ UNCHANGED << sample, initVars, listVars, swapVars, queueVars, fenceVars >>

NeverWait(completed, waitValue, force) == FALSE

WaitUnlessPast(completed, waitValue, force) == completed <= waitValue \/ force

\* swapFence->GetCompletedValue() < swapFenceWaitValue[nextFrameIndex] || forceWait
MustWait(completed, waitValue, force) == completed < waitValue \/ force

CheckFence ==
    /\ pc = "checkFence"
    /\ pc' = IF MustWait(fenceCompleted, swapFenceWaitValue[nextFrameIndex], forceWait)
             THEN "setEvent" ELSE "assignFrame"
    /\ UNCHANGED << sample, initVars, cpuVars, listVars, swapVars, queueVars, fenceVars >>

OnlyWhenReachedLater(completed, value) == FALSE

\* ID3D12Fence::SetEventOnCompletion: the event is set at once when the fence
\* has already reached the value.
SetsEventAtOnce(completed, value) == completed >= value

SetEventOnCompletion ==
    /\ pc = "setEvent"
    /\ pc' = "wait"
    /\ LET value == swapFenceWaitValue[nextFrameIndex]
       IN  IF SetsEventAtOnce(fenceCompleted, value)
           THEN /\ eventSignaled' = TRUE
                /\ UNCHANGED fenceWaiters
           ELSE /\ fenceWaiters' = fenceWaiters \cup {value}
                /\ UNCHANGED eventSignaled
    /\ UNCHANGED << sample, initVars, cpuVars, listVars, swapVars, queueVars,
                    fenceCompleted >>

\* WaitForSingleObjectEx(fenceEvent, INFINITE, FALSE): returns once the event
\* is signaled, and the auto-reset event is then reset.
WaitForSingleObjectEx ==
    /\ pc = "wait"
    /\ eventSignaled
    /\ pc' = "assignFrame"
    /\ eventSignaled' = FALSE
    /\ UNCHANGED << sample, initVars, cpuVars, listVars, swapVars, queueVars,
                    fenceCompleted, fenceWaiters >>

FrameIndexKept(current, next) == current

\* frameIndex = nextFrameIndex
NewFrameIndex(current, next) == next

AssignFrameIndex ==
    /\ pc = "assignFrame"
    /\ pc' = "mainLoop"
    /\ frameIndex' = NewFrameIndex(frameIndex, nextFrameIndex)
    /\ drawLog' = Logged("Sync")
    /\ destroyed' = (destroyed \/ forceWait)
    /\ forceWait' = FALSE
    /\ UNCHANGED << swapFenceCounter, swapFenceWaitValue, nextFrameIndex, rtvOffset >>
    /\ UNCHANGED << sample, initVars, listVars, swapVars, queueVars, fenceVars >>

\* triangle only: the window-destroy callback runs waitGpu(true) from the
\* message dispatch of the main loop, between two draw() calls.
OnWindowDestroy ==
    /\ sample = "triangle"
    /\ pc = "mainLoop"
    /\ ~destroyed
    /\ swapFenceCounter <= MaxSignal
    /\ pc' = "signal"
    /\ forceWait' = TRUE
    /\ UNCHANGED << frameIndex, swapFenceCounter, swapFenceWaitValue, nextFrameIndex,
                    rtvOffset, drawLog, destroyed >>
    /\ UNCHANGED << sample, initVars, listVars, swapVars, queueVars, fenceVars >>

waitGpu ==
    \/ Signal
    \/ RecordWait
    \/ GetBackBuffer
    \/ CheckFence
    \/ SetEventOnCompletion
    \/ WaitForSingleObjectEx
    \/ AssignFrameIndex

draw ==
    \/ AllocatorReset
    \/ ListReset
    \/ Record
    \/ CloseList
    \/ ExecuteCommandLists
    \/ Present
    \/ waitGpu

runMainLoop ==
    \/ BeginDraw
    \/ OnWindowDestroy

Next ==
    \/ initializeD3d
    \/ runMainLoop
    \/ draw
    \/ GpuExecute

Spec == Init /\ [][Next]_vars

\* The GPU eventually executes what is queued, and the CPU thread, once in
\* draw() or waitGpu(), keeps running.
FairSpec == Spec /\ WF_vars(GpuExecute) /\ WF_vars(draw)

\* initializeD3d over every shader deployment.
ShaderSpec == ShaderInit /\ [][initializeD3d]_vars

----------------------------------------------------------------------------
(* Derived notions used by the properties *)

Range(seq) == {seq[k] : k \in 1 .. Len(seq)}

IsPrefix(a, b) == Len(a) <= Len(b) /\ SubSeq(b, 1, Len(a)) = a

InitPcs ==
    {"createDevice", "createCommandQueue", "createSwapChain", "createRtvHeap",
     "createDepthStencil", "createAllocators", "createCommandList", "closeInitial",
     "createFence", "createEvent", "readVertexShader", "readPixelShader",
     "createRootSignature", "createPipelineState"}

\* Positions inside draw() before the command list has been submitted.
RecordingPcs == {"allocReset", "listReset", "record", "close", "execute"}

\* Positions of the synchronisation step.
SyncPcs == {"signal", "recordWait", "getBackBuffer", "checkFence", "setEvent", "wait",
            "assignFrame"}

InDraw == pc \in RecordingPcs \cup {"present"} \/ (pc \in SyncPcs /\ ~forceWait)

InDestroy == pc \in SyncPcs /\ forceWait

FenceCreated == "swapFence" \in Range(created)

SignalPositions == {k \in 1 .. Len(submitted) : submitted[k].op = "Signal"}

ExecutePositions == {k \in 1 .. Len(submitted) : submitted[k].op = "Execute"}

\* Every value passed to commandQueue->Signal so far.
Signaled == {submitted[k].arg : k \in SignalPositions}

\* The command list submitted at position k has been executed and the first
\* fence value signaled after it has been reached.
FrameCompleted(k) ==
    \E j \in SignalPositions :
        /\ j > k
        /\ \A m \in SignalPositions : m > k => j <= m
        /\ submitted[j].arg <= fenceCompleted

\* No command list recorded with allocator i is still in flight.
AllocatorIdle(i) ==
    \A k \in ExecutePositions :
        submitted[k].arg = i => (k <= gpuDone /\ FrameCompleted(k))

InFlightFrames == {k \in ExecutePositions : ~FrameCompleted(k)}

\* The value SetEventOnCompletion is, or would be, called with.
WaitedValue == swapFenceWaitValue[nextFrameIndex]

\* The CPU thread sits in WaitForSingleObjectEx and the event is not set.
Blocked == pc = "wait" /\ ~eventSignaled

----------------------------------------------------------------------------
(* Properties *)

\* C1: whenever draw() resets commandAllocators[frameIndex] (and resets the
\* command list onto it), every command list recorded with that allocator has
\* been executed and the fence has reached the value signaled right after it.
C1_AllocatorNotInFlightAtReset ==
    pc \in {"allocReset", "listReset"} => AllocatorIdle(frameIndex)

\* An allocator is reused (it has been submitted before) while the command
\* lists of other frames are still pending on the GPU.
C1_Witness ==
    /\ pc = "allocReset"
    /\ \E k \in ExecutePositions : submitted[k].arg = frameIndex
    /\ \E k \in ExecutePositions : k > gpuDone

\* C2 (as stated): once the fence exists, swapFenceCounter is strictly greater
\* than every value ever signaled and than every entry of swapFenceWaitValue,
\* and the signaled values are positive and strictly increasing.
C2_CounterAlwaysAboveSignaled ==
    FenceCreated =>
        /\ \A v \in Signaled : v > 0 /\ swapFenceCounter > v
        /\ \A i \in Frames : swapFenceCounter > swapFenceWaitValue[i]
        /\ \A j, k \in SignalPositions : j < k => submitted[j].arg < submitted[k].arg

C2_StateInvariant ==
    /\ \A v \in Signaled : v > 0 /\ swapFenceCounter >= v
    /\ \A j, k \in SignalPositions : j < k => submitted[j].arg < submitted[k].arg
    /\ \A i \in Frames : swapFenceCounter >= swapFenceWaitValue[i]
    /\ FenceCreated =>
          /\ \A i \in Frames : swapFenceCounter > swapFenceWaitValue[i]
          /\ pc # "recordWait" => \A v \in Signaled : swapFenceCounter > v
          /\ pc = "recordWait" => \A v \in Signaled \ {swapFenceCounter} : swapFenceCounter > v

\* C2 (amended): the fence is created with value 0, the signaled values are
\* positive and strictly increasing, the completed value never decreases, and
\* swapFenceCounter is never below a signaled value or a swapFenceWaitValue
\* entry; once the fence exists it is strictly above every wait value, and
\* strictly above every signaled value except between Signal and the
\* post-increment that follows it, where it equals the value just signaled.
C2_FenceCounterMonotonic ==
    /\ []C2_StateInvariant
    /\ [][(~FenceCreated /\ FenceCreated') => fenceCompleted' = 0]_vars
    /\ [][fenceCompleted' >= fenceCompleted]_vars

\* The GPU has completed a signal the CPU has not yet counted past.
C2_Witness ==
    /\ pc = "recordWait"
    /\ fenceCompleted = swapFenceCounter
    /\ swapFenceCounter >= kFrameCount

C3_StateInvariant ==
    /\ (pc \in {"checkFence", "setEvent", "wait", "assignFrame"})
          => nextFrameIndex = backBufferIndex
    /\ (pc \in {"setEvent", "wait"} /\ ~forceWait) => WaitedValue > 0
    /\ (Blocked /\ ~forceWait) => fenceCompleted < WaitedValue
    /\ (pc = "assignFrame" /\ ~forceWait) => fenceCompleted >= WaitedValue

\* C3: in the per-frame synchronisation step the CPU takes the wait branch
\* exactly when the completed value is below swapFenceWaitValue[nextFrameIndex],
\* with nextFrameIndex the current back buffer; it is never blocked on the
\* event while that value is completed (so never for a slot still 0), and the
\* completed value has reached it when the step returns.
C3_WaitsIffBehind ==
    /\ []C3_StateInvariant
    /\ [][(pc = "checkFence" /\ ~forceWait /\ pc' # pc)
            => (pc' = "setEvent" <=> fenceCompleted < WaitedValue)]_vars

\* The CPU is blocked in a draw() on a frame the GPU has not finished.
C3_Witness == Blocked /\ ~forceWait /\ fenceCompleted < WaitedValue

\* C4: initializeD3d creates its objects in program order and has completed
\* before the first draw(); every draw() performs its steps in order, once
\* each; the command list is closed whenever it is reset or executed and is
\* recording whenever commands are recorded.
C4_LinearPipeline ==
    /\ IsPrefix(created, InitOrder(sample))
    /\ readResult.vs # "NONE" => "fenceEvent" \in Range(created)
    /\ readResult.ps # "NONE" => readResult.vs # "NONE"
    /\ "pipelineRootSignature" \in Range(created) => readResult.ps # "NONE"
    /\ pc \in InitPcs => (submitted = <<>> /\ drawLog = <<>>)
    /\ pc \notin InitPcs => created = InitOrder(sample)
    /\ IsPrefix(drawLog, DrawOrder)
    /\ (pc = "mainLoop" /\ drawLog # <<>>) => drawLog = DrawOrder
    /\ pc = "listReset" => listState = "closed"
    /\ pc = "record" => listState = "recording"
    /\ pc = "execute" => listState = "closed"

\* A second draw() has returned.
C4_Witness ==
    /\ pc = "mainLoop"
    /\ drawLog = DrawOrder
    /\ Cardinality(ExecutePositions) >= 2

\* C5: after readShader on an empty buffer, E_FAIL leaves the buffer empty
\* and S_OK leaves exactly the file's bytes in it.
C5_ReadShaderFailureLeavesEmpty ==
    /\ readResult.vs = "E_FAIL" => vertexShader = <<>>
    /\ readResult.vs = "S_OK" => vertexShader = disk.vs.bytes
    /\ readResult.ps = "E_FAIL" => pixelShader = <<>>
    /\ readResult.ps = "S_OK" => pixelShader = disk.ps.bytes

\* C6: every barrier's StateBefore is the tracked state, the clears run in
\* RENDER_TARGET (and DEPTH_WRITE) state, every buffer is in PRESENT state at
\* the end of each submitted list and at Present, and the buffer presented
\* (and in triangle the depth buffer) was cleared by the list just submitted.
C6_BarrierProtocol ==
    /\ "swapChain" \in Range(created) => \A i \in Frames : resState[i] = "PRESENT"
    /\ pc = "execute" =>
          LET after == RunList(allocCmds[listAllocator],
                               [rs |-> resState, ds |-> depthState, ok |-> TRUE])
          IN  after.ok /\ \A i \in Frames : after.rs[i] = "PRESENT"
    /\ pc = "present" =>
          /\ submitted # <<>>
          /\ submitted[Len(submitted)] = Entry("Execute", listAllocator)
          /\ backBufferIndex \in ClearedTargets(allocCmds[listAllocator])
          /\ sample = "triangle" => ClearsDepth(allocCmds[listAllocator])

\* The triangle sample is about to present its third buffer.
C6_Witness ==
    /\ pc = "present"
    /\ sample = "triangle"
    /\ backBufferIndex = kFrameCount - 1
    /\ ClearsDepth(allocCmds[listAllocator])

\* C7: when waitGpu(true), run by the destroy callback between draws, gets
\* past its wait, the GPU has executed everything submitted and the fence has
\* reached every value ever signaled; the back buffer index equals frameIndex
\* throughout that call.
C7_DestroyDrainsGpu ==
    /\ InDestroy => backBufferIndex = frameIndex
    /\ (pc = "assignFrame" /\ forceWait) =>
          /\ gpuDone = Len(submitted)
          /\ \A v \in Signaled : fenceCompleted >= v
          /\ fenceCompleted = swapFenceWaitValue[frameIndex]
          /\ InFlightFrames = {}

\* The destroy callback returns after at least two frames were drawn.
C7_Witness ==
    /\ pc = "assignFrame"
    /\ forceWait
    /\ Cardinality(ExecutePositions) >= 2

\* C8: SetEventOnCompletion is only called with 0 or an already signaled
\* value, and, the GPU executing what is queued, every wait on fenceEvent
\* returns and every draw() and waitGpu(true) returns to the main loop.
C8_WaitTerminates ==
    /\ [](pc = "setEvent" => (WaitedValue = 0 \/ WaitedValue \in Signaled))
    /\ (pc = "wait") ~> (pc = "assignFrame")
    /\ (InDraw \/ InDestroy) ~> (pc = "mainLoop")

\* SetEventOnCompletion is about to be called for a value the fence has
\* already reached.
C8_Witness == pc = "setEvent" /\ fenceCompleted >= WaitedValue

\* C9: frameIndex is a valid buffer index; at the start of every draw() and
\* until Present it is the current back buffer; the RTV descriptor used lies
\* in the heap and is that buffer's; the list records into that frame's
\* allocator and clears that buffer; the wait-value slot written is that of
\* the buffer just presented.
C9_FrameIndexTracksSwapChain ==
    /\ frameIndex \in Frames
    /\ backBufferIndex \in Frames
    /\ (pc = "mainLoop" \/ pc \in RecordingPcs \/ pc = "present")
          => frameIndex = backBufferIndex
    /\ (pc \in RecordingPcs \/ pc = "present") =>
          /\ rtvOffset = frameIndex
          /\ rtvOffset < RtvHeapCapacity(sample)
    /\ pc \in {"record", "close", "execute", "present"} => listAllocator = frameIndex
    /\ pc \in {"close", "execute", "present"} =>
          ClearedTargets(allocCmds[listAllocator]) = {frameIndex}
    /\ (pc \in {"signal", "recordWait"} /\ ~forceWait) => lastPresented = frameIndex

\* A draw() starts on buffer 0 again after the swap chain has wrapped around.
C9_Witness ==
    /\ pc = "allocReset"
    /\ frameIndex = 0
    /\ Cardinality(ExecutePositions) >= kFrameCount

\* draw() calls that have returned.
CompletedDraws ==
    Cardinality(ExecutePositions)
        - (IF pc = "present" \/ (pc \in SyncPcs /\ ~forceWait) THEN 1 ELSE 0)

\* C10: at most kFrameCount submitted frames are in flight at any time, at
\* most kFrameCount - 1 when draw() has returned, and the CPU is never more
\* than kFrameCount - 1 completed draw() calls ahead of the GPU.
C10_FramesInFlightBounded ==
    /\ Cardinality(InFlightFrames) <= kFrameCount
    /\ pc = "mainLoop" => Cardinality(InFlightFrames) <= kFrameCount - 1
    /\ CompletedDraws - (Cardinality(ExecutePositions) - Cardinality(InFlightFrames))
          <= kFrameCount - 1

\* The bound is attained: kFrameCount frames are in flight.
C10_Witness == Cardinality(InFlightFrames) = kFrameCount

====
